---- MODULE Spec2Model ----
(***************************************************************************)
(* AI model routing and task dispatch (AIModelManager and its adapters)    *)
(* and the symbol index (IndexerService) of the AI2DE editor shell.        *)
(***************************************************************************)
EXTENDS Integers, Sequences, FiniteSets, TLC

VARIABLES
    modelConfigs,   \* AIModelManager.modelConfigs : Map<id, ModelConfig>, in insertion order
    models,         \* AIModelManager.models : Map<id, AIModel>, in insertion order
    currentModel,   \* AIModelManager.currentModel
    transactions,   \* AIModelManager.transactions
    envKeys,        \* providers whose <PROVIDER>_API_KEY is set in process.env
    initPc,         \* position of AIModelManager.initialize(): "idle", "await", "done"
    initId,         \* id of the adapter whose initialize() the manager is awaiting
    inflight,       \* chat() calls suspended at `await model.chat(request)`
    lastResult,     \* outcome of the most recently finished call, as seen by its caller
    txSeq,          \* number of logTransaction calls so far (stands for the id/timestamp)
    ops,            \* number of calls the editor has made so far
    appended,       \* every transaction appended since the last clearTransactions
    file_index,     \* IndexerService: rows of table file_index (key file_path)
    code_symbols,   \* IndexerService: rows of table code_symbols (key id)
    dbQueue,        \* statements handed to the database and not yet executed, in order
    clock,          \* Date.now(); it advances by one with every indexFile call
    indexLog,       \* how the most recently finished indexFile call ended
    submitted,      \* history: per path, the indexFile call submitted last
    completed,      \* history: the indexFile calls whose promise has settled
    searchResult,   \* query and rows of the most recently answered search()
    embInitialized, \* EmbeddingsService.isInitialized
    embeddings,     \* EmbeddingsService: rows of table embeddings (key id)
    embCalls,       \* EmbeddingsService calls suspended at their first await
    embResult       \* how the most recently finished EmbeddingsService call ended

mgrVars == <<modelConfigs, models, currentModel, transactions, envKeys,
             initPc, initId, inflight, lastResult, txSeq, appended>>

idxVars == <<file_index, code_symbols, dbQueue, clock, indexLog, submitted, completed,
            searchResult>>

embVars == <<embInitialized, embeddings, embCalls, embResult>>

vars == <<mgrVars, ops, idxVars, embVars>>

----------------------------------------------------------------------------
(* Bounds *)

MaxOps == 2         \* calls the editor makes besides the start-up initialize()
LogFill == 99       \* SpecLog: appends up to which the log is filled by one repeated call
LogMaxAppends == 102 \* SpecLog: appends after which no further logging call starts
MaxInflight == 1    \* chat() calls suspended at the same time
MaxConcurrent == 2  \* SpecConcurrent: chat() calls suspended at the same time
MaxIndexCalls == 4  \* SpecIndex: indexFile calls the editor submits
MaxSearchFiles == 2 \* SpecSearch: indexFile calls the editor submits
MaxSearches == 1    \* SpecSearch: search calls the editor submits
MaxEmbedOps == 3    \* SpecEmbed: EmbeddingsService calls made
MaxEmbedInflight == 1 \* SpecEmbed: EmbeddingsService calls suspended at the same time

(* Program constants *)

SearchLimit == 50
embeddingDimensions == 384
SimilarityFloorNum == 7     \* similarity > 0.7, as the fraction 7 / 10
SimilarityFloorDen == 10
MaxTransactions == 100

PinnedModel == "codellama-7b-instruct"

NoModelsError == "No AI models available"

ChatUnavailable == "AI chat not available. Please check Ollama connection and ensure models are installed."
ChatNotSelected == "Selected AI model not available for chat."
ChatFallback == "Sorry, I encountered an error. Please try again."
CompletionUnavailable == "AI models not available. Please check Ollama connection."
CompletionNotSelected == "Selected AI model not available."
CompletionFallback == "Sorry, I encountered an error generating the completion."

----------------------------------------------------------------------------
(* JavaScript Map, kept as a sequence of records with an id field *)

MapHas(m, k) == \E i \in 1..Len(m) : m[i].id = k

MapGet(m, k) == m[CHOOSE i \in 1..Len(m) : m[i].id = k]

MapSet(m, v) ==
    IF MapHas(m, v.id)
    THEN [i \in 1..Len(m) |-> IF m[i].id = v.id THEN v ELSE m[i]]
    ELSE Append(m, v)

MapDelete(m, k) == SelectSeq(m, LAMBDA e : e.id # k)

MapKeys(m) == {m[i].id : i \in 1..Len(m)}

MapIndex(m, k) == CHOOSE i \in 1..Len(m) : m[i].id = k

----------------------------------------------------------------------------
(* Model descriptors *)

Config(id, name, provider, specialties, latency, isLocal, apiKey) ==
    [id |-> id, name |-> name, provider |-> provider, specialties |-> specialties,
     latency |-> latency, isLocal |-> isLocal, apiKey |-> apiKey]

initializeModelConfigs ==
    << Config("codellama-7b-instruct", "Code Llama 7B Instruct (Fast)", "local",
              {"code-completion", "code-generation", "debugging", "chat", "general-coding"},
              "low", TRUE, ""),
       Config("codellama-70b-instruct", "Code Llama 70B Instruct (Powerful)", "local",
              {"complex-reasoning", "architecture", "code-review"},
              "high", TRUE, ""),
       Config("claude-code", "Claude Code", "anthropic",
              {"code-review", "architecture", "complex-reasoning"},
              "low", FALSE, ""),
       Config("gpt-4-turbo", "GPT-4 Turbo", "openai",
              {"general-coding", "reasoning", "complex-tasks"},
              "low", FALSE, "") >>

\* String.prototype.includes over the ids the program builds
IdIncludes(id, part) ==
    CASE part = "codellama" -> id \in {"codellama-7b-instruct", "codellama-70b-instruct"}
      [] part = "7b"        -> id \in {"codellama-7b-instruct"}
      [] part = "deepseek"  -> id \in {"deepseek-coder"}
      [] part = "llama"     -> id \in {"codellama-7b-instruct", "codellama-70b-instruct",
                                       "llama-3.1-70b"}
      [] OTHER              -> FALSE

\* The adapter class createModelInstance builds, "null" when it builds none
createModelInstance(config) ==
    CASE config.provider = "local" ->
            IF IdIncludes(config.id, "codellama") THEN "CodeLlama"
            ELSE IF IdIncludes(config.id, "deepseek") THEN "DeepSeek"
            ELSE IF IdIncludes(config.id, "qwen") THEN "Qwen"
            ELSE IF IdIncludes(config.id, "llama") THEN "Llama"
            ELSE "null"
      [] config.provider = "anthropic" -> "Claude"
      [] config.provider = "mistral"   -> "Codestral"
      [] config.provider = "openai"    -> "OpenAI"
      [] OTHER -> "null"

\* An adapter object: its class, its config and its isInitialized field
Adapter(config, kind, isInitialized) ==
    [id |-> config.id, kind |-> kind, config |-> config, isInitialized |-> isInitialized]

isAvailable(adapter) == adapter.isInitialized

\* ClaudeModel / OpenAIModel / CodestralModel .initialize(): ready iff a credential is present
CloudInitialize(config, env) == (config.provider \in env) \/ (config.apiKey # "")

----------------------------------------------------------------------------
(* Transaction log *)

Transaction(type, model, operation, seq) ==
    [type |-> type, model |-> model, operation |-> operation, seq |-> seq]

\* Array.prototype.slice(-n)
SliceLast(s, n) == IF Len(s) > n THEN SubSeq(s, Len(s) - n + 1, Len(s)) ELSE s

\* logTransaction keeping the first 100 entries: slice(0, 100) for slice(-100)
logTransaction_KeepFirst(txs, t) ==
    LET pushed == Append(txs, t)
    IN  IF Len(pushed) > MaxTransactions THEN SubSeq(pushed, 1, MaxTransactions) ELSE pushed

\* A log whose push writes over the newest entry
logTransaction_Overwrite(txs, t) ==
    IF txs = << >> THEN << t >> ELSE [txs EXCEPT ![Len(txs)] = t]

logTransaction(txs, t) ==
    LET pushed == Append(txs, t)
    IN  IF Len(pushed) > MaxTransactions THEN SliceLast(pushed, MaxTransactions) ELSE pushed

getTransactions == transactions

\* modelConfigs.get(id)?.name || id
NameOf(cfgs, id) == IF MapHas(cfgs, id) THEN MapGet(cfgs, id).name ELSE id

----------------------------------------------------------------------------
(* Selection policy *)

TaskTypes == {"code-completion", "chat", "inline-completion", "code-review"}

\* userPreferences?.preferLocal : undefined (or no preferences object), true, false
PreferLocalValues == {"undefined", "true", "false"}

getAvailableModels(cfgs, mdls) == SelectSeq(cfgs, LAMBDA c : MapHas(mdls, c.id))

SpecialtyFilter(ms, taskType) ==
    SelectSeq(ms, LAMBDA m : \/ taskType \in m.specialties
                             \/ "general-coding" \in m.specialties
                             \/ "chat" \in m.specialties)

FastFilter(ms, taskType) ==
    IF taskType = "inline-completion" \/ taskType = "chat"
    THEN LET fastModels == SelectSeq(ms, LAMBDA m : m.latency = "low" \/ IdIncludes(m.id, "7b"))
         IN  IF Len(fastModels) > 0 THEN fastModels ELSE ms
    ELSE ms

\* The locality filter keeping the cloud models: !model.isLocal for model.isLocal
LocalFilter_Inverted(ms, preferLocal) ==
    IF preferLocal # "false"
    THEN LET localModels == SelectSeq(ms, LAMBDA m : ~m.isLocal)
         IN  IF Len(localModels) > 0 THEN localModels ELSE ms
    ELSE ms

LocalFilter(ms, preferLocal) ==
    IF preferLocal # "false"
    THEN LET localModels == SelectSeq(ms, LAMBDA m : m.isLocal)
         IN  IF Len(localModels) > 0 THEN localModels ELSE ms
    ELSE ms

\* The candidates left after the three filters
Candidates(cfgs, mdls, taskType, preferLocal) ==
    LocalFilter(FastFilter(SpecialtyFilter(getAvailableModels(cfgs, mdls), taskType), taskType),
                preferLocal)

\* The last line of selectOptimalModel without the pinned id
BestMatch_NoPin(mdls, suitableModels, cur) ==
    IF Len(suitableModels) > 0 THEN suitableModels[1].id ELSE cur

BestMatch(mdls, suitableModels, cur) ==
    IF MapHas(mdls, PinnedModel) THEN PinnedModel
    ELSE IF Len(suitableModels) > 0 THEN suitableModels[1].id ELSE cur

\* Result: [ok |-> TRUE, id |-> chosen id] or [ok |-> FALSE, id |-> message of the Error thrown]
selectOptimalModel(cfgs, mdls, cur, taskType, context, preferLocal) ==
    IF Len(getAvailableModels(cfgs, mdls)) = 0
    THEN [ok |-> FALSE, id |-> NoModelsError]
    ELSE [ok |-> TRUE,
          id |-> BestMatch(mdls, Candidates(cfgs, mdls, taskType, preferLocal), cur)]

\* No registered adapter answers isAvailable() with true
NoneReady(mdls) == \A i \in 1..Len(mdls) : ~isAvailable(mdls[i])

----------------------------------------------------------------------------
(* Results handed to callers *)

Result(op, outcome, value, failed) ==
    [op |-> op, outcome |-> outcome, value |-> value, failed |-> failed]

NoResult == Result("none", "return", "", FALSE)

\* Values of the context argument of chat(): an object with a history array,
\* an object without one, no object (undefined / null)
ChatContexts == {"history", "nohistory", "none"}

\* Values of the position argument of getInlineCompletion()
Positions == {"language", "nolanguage", "none"}

\* Texts a backend answers with (response.data... || '')
Responses == {"text", ""}

\* Files the editor loads and saves
Paths == {"a.ts", "b.py"}

\* No indexFile call yet (call ids start at 1, a text is never empty here).
\* prev is the text of the call submitted before it for the path, quiet tells
\* that the database had no statement left to execute when it was submitted.
NoCall == [id |-> 0, content |-> << >>, prev |-> << >>, quiet |-> FALSE]

Init ==
    /\ modelConfigs = initializeModelConfigs
    /\ models = << >>
    /\ currentModel = "codellama-7b-instruct"
    /\ transactions = << >>
    /\ envKeys \in SUBSET {"anthropic", "openai"}
    /\ initPc = "idle"
    /\ initId = ""
    /\ inflight = << >>
    /\ lastResult = NoResult
    /\ txSeq = 0
    /\ ops = 0
    /\ appended = << >>
    /\ file_index = {}
    /\ code_symbols = {}
    /\ dbQueue = << >>
    /\ clock = 0
    /\ indexLog = [filePath |-> "", outcome |-> ""]
    /\ submitted = [filePath \in Paths |-> NoCall]
    /\ completed = {}
    /\ searchResult = [query |-> << >>, rows |-> << >>]
    /\ embInitialized = FALSE
    /\ embeddings = {}
    /\ embCalls = << >>
    /\ embResult = [op |-> "none", outcome |-> "none", rows |-> << >>, mismatch |-> FALSE]

----------------------------------------------------------------------------
(* Appending to the log *)

Entry(type, model, operation) == [type |-> type, model |-> model, operation |-> operation]

Stamp(entries, seq) ==
    [i \in 1..Len(entries) |->
        Transaction(entries[i].type, entries[i].model, entries[i].operation, seq + i)]

RECURSIVE LogAll(_, _)
LogAll(txs, stamped) ==
    IF stamped = << >> THEN txs
    ELSE LogAll(logTransaction(txs, Head(stamped)), Tail(stamped))

\* The handler calls logTransaction once per entry, in order
Logged(entries) ==
    /\ transactions' = LogAll(transactions, Stamp(entries, txSeq))
    /\ txSeq' = txSeq + Len(entries)
    /\ appended' = appended \o Stamp(entries, txSeq)

----------------------------------------------------------------------------
(* AIModelManager.initialize *)

\* Adapter classes whose initialize() awaits an HTTP probe of the local daemon
LocalKinds == {"CodeLlama", "DeepSeek", "Qwen", "Llama"}

\* The for-loop over modelConfigs from position i up to the next awaited probe
RECURSIVE RunInit(_, _, _, _, _)
RunInit(cfgs, mdls, entries, env, i) ==
    IF i > Len(cfgs)
    THEN [models |-> mdls, entries |-> entries, pc |-> "done", id |-> ""]
    ELSE LET config == cfgs[i]
             kind == createModelInstance(config)
         IN  IF kind = "null" THEN RunInit(cfgs, mdls, entries, env, i + 1)
             ELSE IF kind \in LocalKinds
             THEN [models |-> mdls, entries |-> entries, pc |-> "await", id |-> config.id]
             ELSE RunInit(cfgs,
                          MapSet(mdls, Adapter(config, kind, CloudInitialize(config, env))),
                          Append(entries, Entry("info", config.name, "initialization")),
                          env, i + 1)

\* "Set the fastest available model as primary"
PrimaryModel(mdls, cur) ==
    IF MapHas(mdls, "codellama-7b-instruct") THEN "codellama-7b-instruct"
    ELSE IF MapHas(mdls, "codellama-70b-instruct") THEN "codellama-70b-instruct"
    ELSE IF Len(mdls) > 0 THEN mdls[1].id
    ELSE cur

InitializeBegin ==
    /\ initPc = "idle"
    /\ LET r == RunInit(modelConfigs, models,
                        << Entry("info", "System", "initialization") >>, envKeys, 1)
       IN  /\ models' = r.models
           /\ Logged(r.entries)
           /\ initPc' = r.pc
           /\ initId' = r.id
           /\ currentModel' = IF r.pc = "done" THEN PrimaryModel(r.models, currentModel)
                              ELSE currentModel
    /\ UNCHANGED <<modelConfigs, envKeys, inflight, lastResult>>

\* initialize() with the try/catch around the whole loop only: a throwing
\* adapter ends the loop
InitializeResume_Abort(probeOk) ==
    /\ initPc = "await"
    /\ MapHas(modelConfigs, initId)
    /\ LET config == MapGet(modelConfigs, initId)
           kind == createModelInstance(config)
           threw == kind = "CodeLlama" /\ ~probeOk
           mdls1 == IF threw THEN models ELSE MapSet(models, Adapter(config, kind, probeOk))
           ent1 == IF threw THEN << >>
                   ELSE << Entry("info", config.name, "initialization") >>
           r == IF threw THEN [models |-> models, entries |-> << >>, pc |-> "done", id |-> ""]
                ELSE RunInit(modelConfigs, mdls1, ent1, envKeys, MapIndex(modelConfigs, initId) + 1)
       IN  /\ models' = r.models
           /\ Logged(r.entries)
           /\ initPc' = r.pc
           /\ initId' = r.id
           /\ currentModel' = IF r.pc = "done" THEN PrimaryModel(r.models, currentModel)
                              ELSE currentModel
    /\ UNCHANGED <<modelConfigs, envKeys, inflight, lastResult>>

\* The awaited probe ends: probeOk = FALSE is CodeLlamaModel.initialize throwing,
\* or one of the other local adapters returning without becoming ready
InitializeResume(probeOk) ==
    /\ initPc = "await"
    /\ MapHas(modelConfigs, initId)
    /\ LET config == MapGet(modelConfigs, initId)
           kind == createModelInstance(config)
           threw == kind = "CodeLlama" /\ ~probeOk
           mdls1 == IF threw THEN models ELSE MapSet(models, Adapter(config, kind, probeOk))
           ent1 == IF threw THEN << >>
                   ELSE << Entry("info", config.name, "initialization") >>
           r == RunInit(modelConfigs, mdls1, ent1, envKeys, MapIndex(modelConfigs, initId) + 1)
       IN  /\ models' = r.models
           /\ Logged(r.entries)
           /\ initPc' = r.pc
           /\ initId' = r.id
           /\ currentModel' = IF r.pc = "done" THEN PrimaryModel(r.models, currentModel)
                              ELSE currentModel
    /\ UNCHANGED <<modelConfigs, envKeys, inflight, lastResult>>

----------------------------------------------------------------------------
(* AIModelManager.setCurrentModel and the 'ai:switch-model' handler *)

\* [ok |-> FALSE] is `throw new Error("Model ... not found")`
setCurrentModel(cfgs, mdls, cur, modelId) ==
    IF ~MapHas(mdls, modelId)
    THEN [ok |-> FALSE, currentModel |-> cur, entries |-> << >>]
    ELSE [ok |-> TRUE, currentModel |-> modelId,
          entries |-> << Entry("info", NameOf(cfgs, modelId), "initialization") >>]

SwitchModel(modelId) ==
    LET r == setCurrentModel(modelConfigs, models, currentModel, modelId)
    IN  /\ currentModel' = r.currentModel
        /\ Logged(r.entries)
        /\ lastResult' = Result("switchModel", IF r.ok THEN "return" ELSE "throw",
                                IF r.ok THEN "true" ELSE "false", ~r.ok)
        /\ UNCHANGED <<modelConfigs, models, envKeys, initPc, initId, inflight>>

clearTransactions ==
    /\ transactions' = << >>
    /\ appended' = << >>
    /\ UNCHANGED <<modelConfigs, models, currentModel, envKeys, initPc, initId,
                   inflight, lastResult, txSeq>>

----------------------------------------------------------------------------
(* Adapters: complete / chat / inlineComplete up to the HTTP call *)

\* complete() and chat() of every adapter class throw "... not initialized" first
ThrowsNotInitialized(adapter) == ~adapter.isInitialized

\* inlineComplete(): CodeLlamaModel swallows a backend failure and answers '',
\* the adapters that delegate to complete() rethrow it
inlineComplete(adapter, backendOk, response) ==
    IF ~adapter.isInitialized THEN [thrown |-> TRUE, value |-> ""]
    ELSE IF backendOk THEN [thrown |-> FALSE, value |-> response]
    ELSE IF adapter.kind = "CodeLlama" THEN [thrown |-> FALSE, value |-> ""]
    ELSE [thrown |-> TRUE, value |-> ""]

----------------------------------------------------------------------------
(* AIModelManager.chat *)

\* The catch block without its logTransaction call
ChatCatch_Silent(cfgs, cur, context) ==
    IF context = "none"
    THEN [outcome |-> "throw", value |-> "TypeError", entries |-> << >>]
    ELSE [outcome |-> "return", value |-> ChatFallback, entries |-> << >>]

\* The catch block: building the error transaction reads context.history
ChatCatch(cfgs, cur, context) ==
    IF context = "none"
    THEN [outcome |-> "throw", value |-> "TypeError", entries |-> << >>]
    ELSE [outcome |-> "return", value |-> ChatFallback,
          entries |-> << Entry("error", NameOf(cfgs, cur), "chat") >>]

\* chat() from its entry to `await model.chat(request)`
ChatDispatch(cfgs, mdls, cur, context) ==
    LET sel == selectOptimalModel(cfgs, mdls, cur, "chat", context, "undefined")
        caught == ChatCatch(cfgs, cur, context)
        request == Entry("request", NameOf(cfgs, sel.id), "chat")
    IN  IF Len(mdls) = 0
        THEN [suspend |-> FALSE, outcome |-> "return", value |-> ChatUnavailable,
              entries |-> << >>, selected |-> "", failed |-> FALSE]
        ELSE IF ~sel.ok
        THEN [suspend |-> FALSE, outcome |-> caught.outcome, value |-> caught.value,
              entries |-> caught.entries, selected |-> "", failed |-> TRUE]
        ELSE IF ~MapHas(mdls, sel.id)
        THEN [suspend |-> FALSE, outcome |-> "return", value |-> ChatNotSelected,
              entries |-> << >>, selected |-> sel.id, failed |-> FALSE]
        ELSE IF context = "none"
        THEN [suspend |-> FALSE, outcome |-> caught.outcome, value |-> caught.value,
              entries |-> caught.entries, selected |-> sel.id, failed |-> TRUE]
        ELSE IF ThrowsNotInitialized(MapGet(mdls, sel.id))
        THEN [suspend |-> FALSE, outcome |-> caught.outcome, value |-> caught.value,
              entries |-> << request >> \o caught.entries, selected |-> sel.id,
              failed |-> TRUE]
        ELSE [suspend |-> TRUE, outcome |-> "return", value |-> "",
              entries |-> << request >>, selected |-> sel.id, failed |-> FALSE]

ChatBegin(context) ==
    LET d == ChatDispatch(modelConfigs, models, currentModel, context)
    IN  /\ Logged(d.entries)
        /\ IF d.suspend
           THEN /\ inflight' = Append(inflight, [model |-> d.selected, context |-> context,
                                             kind |-> MapGet(models, d.selected).kind,
                                             request |-> txSeq + 1])
                /\ UNCHANGED lastResult
           ELSE /\ lastResult' = Result("chat", d.outcome, d.value, d.failed)
                /\ UNCHANGED inflight
        /\ UNCHANGED <<modelConfigs, models, currentModel, envKeys, initPc, initId>>

RemoveAt(s, i) == SubSeq(s, 1, i - 1) \o SubSeq(s, i + 1, Len(s))

\* The adapter classes whose axios.post of chat() is given a timeout: only
\* CodeLlamaModel passes one (60000 ms), the other classes pass no timeout
\* and axios waits without limit
HasTimeout(kind) == kind = "CodeLlama"

\* The awaited model.chat(request) of call i ends
ChatFinish(i, backendOk, response) ==
    /\ i \in 1..Len(inflight)
    /\ LET call == inflight[i]
           caught == ChatCatch(modelConfigs, currentModel, call.context)
       IN  IF backendOk
           THEN /\ Logged(<< Entry("response", NameOf(modelConfigs, call.model), "chat") >>)
                /\ lastResult' = Result("chat", "return", response, FALSE)
           ELSE /\ Logged(caught.entries)
                /\ lastResult' = Result("chat", caught.outcome, caught.value, TRUE)
    /\ inflight' = RemoveAt(inflight, i)
    /\ UNCHANGED <<modelConfigs, models, currentModel, envKeys, initPc, initId>>

----------------------------------------------------------------------------
(* AIModelManager.getCompletion and getInlineCompletion *)

getCompletion(cfgs, mdls, cur, backendOk, response) ==
    LET sel == selectOptimalModel(cfgs, mdls, cur, "code-completion", "context", "undefined")
    IN  IF Len(mdls) = 0
        THEN [outcome |-> "return", value |-> CompletionUnavailable, selected |-> "",
              failed |-> FALSE]
        ELSE IF ~sel.ok
        THEN [outcome |-> "return", value |-> CompletionFallback, selected |-> "",
              failed |-> TRUE]
        ELSE IF ~MapHas(mdls, sel.id)
        THEN [outcome |-> "return", value |-> CompletionNotSelected, selected |-> sel.id,
              failed |-> FALSE]
        ELSE IF ThrowsNotInitialized(MapGet(mdls, sel.id)) \/ ~backendOk
        THEN [outcome |-> "return", value |-> CompletionFallback, selected |-> sel.id,
              failed |-> TRUE]
        ELSE [outcome |-> "return", value |-> response, selected |-> sel.id,
              failed |-> FALSE]

GetCompletion(backendOk, response) ==
    LET r == getCompletion(modelConfigs, models, currentModel, backendOk, response)
    IN  /\ lastResult' = Result("completion", r.outcome, r.value, r.failed)
        /\ UNCHANGED <<modelConfigs, models, currentModel, transactions, envKeys, initPc,
                       initId, inflight, txSeq, appended>>

\* The catch block rethrowing, as getInlineCompletion without its try/catch would
InlineCatch_Rethrow == [outcome |-> "throw", value |-> "Error"]

\* The catch block of getInlineCompletion
InlineCatch == [outcome |-> "return", value |-> ""]

getInlineCompletion(cfgs, mdls, cur, position, backendOk, response) ==
    LET sel == selectOptimalModel(cfgs, mdls, cur, "inline-completion", "context", "undefined")
        adapter == MapGet(mdls, sel.id)
        r == inlineComplete(adapter, backendOk, response)
    IN  IF Len(mdls) = 0
        THEN [outcome |-> "return", value |-> "", selected |-> "", failed |-> TRUE]
        ELSE IF ~sel.ok
        THEN [outcome |-> InlineCatch.outcome, value |-> InlineCatch.value,
              selected |-> "", failed |-> TRUE]
        ELSE IF ~MapHas(mdls, sel.id)
        THEN [outcome |-> "return", value |-> "", selected |-> sel.id, failed |-> TRUE]
        ELSE IF position = "none" \/ r.thrown
        THEN [outcome |-> InlineCatch.outcome, value |-> InlineCatch.value,
              selected |-> sel.id, failed |-> TRUE]
        ELSE [outcome |-> "return", value |-> r.value, selected |-> sel.id,
              failed |-> ~backendOk]

GetInlineCompletion(position, backendOk, response) ==
    LET r == getInlineCompletion(modelConfigs, models, currentModel, position,
                                 backendOk, response)
    IN  /\ lastResult' = Result("inline", r.outcome, r.value, r.failed)
        /\ UNCHANGED <<modelConfigs, models, currentModel, transactions, envKeys, initPc,
                       initId, inflight, txSeq, appended>>

----------------------------------------------------------------------------
(* Registry mutation: 'settings:update-api-key' -> addModel, removeModel, cleanup *)

Providers == {"anthropic", "openai", "mistral"}

ApiKeys == {"", "sk-1"}

\* `${provider}-updated` and `${provider} Model`
UpdatedId(provider) ==
    CASE provider = "anthropic" -> "anthropic-updated"
      [] provider = "openai"    -> "openai-updated"
      [] provider = "mistral"   -> "mistral-updated"

UpdatedName(provider) ==
    CASE provider = "anthropic" -> "anthropic Model"
      [] provider = "openai"    -> "openai Model"
      [] provider = "mistral"   -> "mistral Model"

UpdatedConfig(provider, apiKey) ==
    Config(UpdatedId(provider), UpdatedName(provider), provider, {"general-coding"},
           "low", FALSE, apiKey)

\* addModel for the adapter classes whose initialize() neither awaits nor throws
addModel(cfgs, mdls, env, config) ==
    LET kind == createModelInstance(config)
    IN  [modelConfigs |-> MapSet(cfgs, config),
         models |-> IF kind = "null" THEN mdls
                    ELSE MapSet(mdls, Adapter(config, kind, CloudInitialize(config, env)))]

\* Descriptors handed to addModel besides the one of 'settings:update-api-key':
\* the built-in one of the pinned model, to register it again after removeModel,
\* and two of other local adapters
AddedConfigs ==
    {initializeModelConfigs[1],
     Config("llama-3.1-70b", "Llama 3.1 70B", "local", {"chat", "complex-reasoning"},
            "high", TRUE, ""),
     Config("deepseek-coder", "DeepSeek Coder", "local", {"code-completion", "chat"},
            "medium", TRUE, "")}

\* addModel for the local adapter classes: initialize() awaits the probe of the
\* local daemon.  CodeLlamaModel.initialize throws when the probe fails, and the
\* adapter is not registered; the other classes return without becoming ready.
addLocalModel(cfgs, mdls, config, probeOk) ==
    LET kind == createModelInstance(config)
    IN  [modelConfigs |-> MapSet(cfgs, config),
         models |-> IF kind = "null" \/ (kind = "CodeLlama" /\ ~probeOk) THEN mdls
                    ELSE MapSet(mdls, Adapter(config, kind, probeOk))]

AddModel(config, probeOk) ==
    LET r == addLocalModel(modelConfigs, models, config, probeOk)
    IN  /\ modelConfigs' = r.modelConfigs
        /\ models' = r.models
        /\ UNCHANGED <<currentModel, transactions, envKeys, initPc, initId, inflight,
                       lastResult, txSeq, appended>>

UpdateApiKey(provider, apiKey) ==
    LET r == addModel(modelConfigs, models, envKeys, UpdatedConfig(provider, apiKey))
    IN  /\ modelConfigs' = r.modelConfigs
        /\ models' = r.models
        /\ UNCHANGED <<currentModel, transactions, envKeys, initPc, initId, inflight,
                       lastResult, txSeq, appended>>

removeModel(modelId) ==
    /\ MapHas(models, modelId)
    /\ models' = MapDelete(models, modelId)
    /\ modelConfigs' = MapDelete(modelConfigs, modelId)
    /\ UNCHANGED <<currentModel, transactions, envKeys, initPc, initId, inflight,
                   lastResult, txSeq, appended>>

cleanup ==
    /\ Len(models) > 0
    /\ models' = << >>
    /\ UNCHANGED <<modelConfigs, currentModel, transactions, envKeys, initPc, initId,
                   inflight, lastResult, txSeq, appended>>

----------------------------------------------------------------------------
(* Text: a string is the sequence of its characters *)

\* The digits and letters, in char code order
Digits == <<"0", "1", "2", "3", "4", "5", "6", "7", "8", "9">>

Upper ==
    <<"A", "B", "C", "D", "E", "F", "G", "H", "I", "J", "K", "L", "M",
      "N", "O", "P", "Q", "R", "S", "T", "U", "V", "W", "X", "Y", "Z">>

Lower ==
    <<"a", "b", "c", "d", "e", "f", "g", "h", "i", "j", "k", "l", "m",
      "n", "o", "p", "q", "r", "s", "t", "u", "v", "w", "x", "y", "z">>

IndexIn(seq, c) == CHOOSE i \in 1..Len(seq) : seq[i] = c

\* String.prototype.charCodeAt, for the characters source texts are written in
CharCode(c) ==
    CASE \E i \in 1..Len(Digits) : Digits[i] = c -> 47 + IndexIn(Digits, c)
      [] \E i \in 1..Len(Upper) : Upper[i] = c -> 64 + IndexIn(Upper, c)
      [] \E i \in 1..Len(Lower) : Lower[i] = c -> 96 + IndexIn(Lower, c)
      [] c = "\t" -> 9
      [] c = "\n" -> 10
      [] c = "\r" -> 13
      [] c = " " -> 32
      [] c = "(" -> 40
      [] c = ")" -> 41
      [] c = "," -> 44
      [] c = "." -> 46
      [] c = ":" -> 58
      [] c = ";" -> 59
      [] c = "=" -> 61
      [] c = "_" -> 95
      [] c = "{" -> 123
      [] c = "}" -> 125

\* \s and \w of the regular expressions
IsSpace(c) == c \in {" ", "\t", "\r"}

IsWord(c) ==
    LET code == CharCode(c)
    IN \/ code >= 48 /\ code <= 57
       \/ code >= 65 /\ code <= 90
       \/ code >= 97 /\ code <= 122
       \/ code = 95

\* content.split('\n')
RECURSIVE Split(_)
Split(content) ==
    LET breaks == {i \in 1..Len(content) : content[i] = "\n"}
    IN IF breaks = {} THEN <<content>>
       ELSE LET b == CHOOSE i \in breaks : \A j \in breaks : i <= j
            IN <<SubSeq(content, 1, b - 1)>> \o Split(SubSeq(content, b + 1, Len(content)))

\* The first position from i on that holds no white space (Len + 1 when there is none)
SkipSpace(line, i) ==
    LET rest == {j \in i..Len(line) : ~IsSpace(line[j])}
    IN IF rest = {} THEN Len(line) + 1
       ELSE CHOOSE j \in rest : \A k \in rest : j <= k

\* String.prototype.trim
Trim(line) ==
    LET solid == {j \in 1..Len(line) : ~IsSpace(line[j])}
    IN IF solid = {} THEN << >>
       ELSE SubSeq(line, CHOOSE j \in solid : \A k \in solid : j <= k,
                         CHOOSE j \in solid : \A k \in solid : j >= k)

StartsWith(line, i, word) ==
    /\ i + Len(word) - 1 <= Len(line)
    /\ SubSeq(line, i, i + Len(word) - 1) = word

\* `word\s+` at position i: the position after it, 0 when it does not match
WordThenSpace(line, i, word) ==
    IF /\ StartsWith(line, i, word)
       /\ i + Len(word) <= Len(line)
       /\ IsSpace(line[i + Len(word)])
    THEN SkipSpace(line, i + Len(word))
    ELSE 0

\* `(?:word\s+)?` for each of the optional words in turn
RECURSIVE SkipOptional(_, _, _)
SkipOptional(line, i, optional) ==
    IF optional = << >> THEN i
    ELSE LET p == WordThenSpace(line, i, Head(optional))
         IN SkipOptional(line, IF p = 0 THEN i ELSE p, Tail(optional))

\* `(\w+)` at position i: the longest run of word characters (empty: no match)
TakeWord(line, i) ==
    LET stops == {j \in i..Len(line) : ~IsWord(line[j])}
        end == IF stops = {} THEN Len(line)
               ELSE (CHOOSE j \in stops : \A k \in stops : j <= k) - 1
    IN SubSeq(line, i, end)

\* line.match(/^\s*(?:o1\s+)?(?:o2\s+)?keyword\s+(\w+)/)[1], << >> when null
Match(line, optional, keyword) ==
    LET start == SkipOptional(line, SkipSpace(line, 1), optional)
        p == WordThenSpace(line, start, keyword)
    IN IF p = 0 THEN << >> ELSE TakeWord(line, p)

KwExport == <<"e", "x", "p", "o", "r", "t">>
KwDefault == <<"d", "e", "f", "a", "u", "l", "t">>
KwAsync == <<"a", "s", "y", "n", "c">>
KwClass == <<"c", "l", "a", "s", "s">>
KwFunction == <<"f", "u", "n", "c", "t", "i", "o", "n">>
KwDef == <<"d", "e", "f">>

----------------------------------------------------------------------------
(* IndexerService: hashing, language tags and symbol extraction *)

\* The 32-bit two's complement integer whose 16-bit halves are hi and lo
ToInt32(hi, lo) == IF hi >= 32768 THEN (hi - 65536) * 65536 + lo ELSE hi * 65536 + lo

\* One round of the loop of generateHash:
\* hash = ((hash << 5) - hash) + char; hash = hash & hash
\* ((hash << 5) - hash is 31 * hash in 32-bit arithmetic, computed on the halves of hash)
HashStep(hash, char) ==
    LET low == 31 * (hash % 65536) + char
        high == 31 * ((hash \div 65536) % 65536) + (low \div 65536)
    IN ToInt32(high % 65536, low % 65536)

\* The for-loop of generateHash from position i on (hash is a 32-bit integer in every round)
RECURSIVE HashLoop(_, _, _)
HashLoop(hash, content, i) ==
    IF i > Len(content) \/ hash \notin Int THEN hash
    ELSE HashLoop(HashStep(hash, CharCode(content[i])), content, i + 1)

\* The number whose decimal form hash.toString() is
generateHash(content) == HashLoop(0, content, 1)

\* path.extname(filePath).toLowerCase() looked up in languageMap, 'text' when absent
getLanguageFromPath(filePath) ==
    CASE filePath = "a.ts" -> "typescript"
      [] filePath = "b.py" -> "python"
      [] OTHER -> "text"

\* A CodeSymbol; its id is `${filePath}:${name}:${lineNumber}`
CodeSymbol(filePath, name, type, lineNumber, line, language) ==
    [id |-> <<filePath, name, lineNumber>>, name |-> name, type |-> type,
     filePath |-> filePath, startLine |-> lineNumber, endLine |-> lineNumber,
     signature |-> Trim(line), language |-> language]

\* The symbols one line yields: the class match first, then the function match
LineSymbols(line, lineNumber, filePath, classOpt, functionOpt, functionKw, language) ==
    LET classMatch == Match(line, classOpt, KwClass)
        functionMatch == Match(line, functionOpt, functionKw)
    IN (IF classMatch = << >> THEN << >>
        ELSE <<CodeSymbol(filePath, classMatch, "class", lineNumber, line, language)>>)
       \o
       (IF functionMatch = << >> THEN << >>
        ELSE <<CodeSymbol(filePath, functionMatch, "function", lineNumber, line, language)>>)

RECURSIVE extractJavaScriptSymbols(_, _, _)
extractJavaScriptSymbols(lines, filePath, i) ==
    IF i > Len(lines) THEN << >>
    ELSE LineSymbols(lines[i], i, filePath, <<KwExport, KwDefault>>,
                     <<KwExport, KwAsync>>, KwFunction, "javascript")
         \o extractJavaScriptSymbols(lines, filePath, i + 1)

RECURSIVE extractPythonSymbols(_, _, _)
extractPythonSymbols(lines, filePath, i) ==
    IF i > Len(lines) THEN << >>
    ELSE LineSymbols(lines[i], i, filePath, << >>, <<KwAsync>>, KwDef, "python")
         \o extractPythonSymbols(lines, filePath, i + 1)

\* extractSymbols -> extractSymbolsWithRegex, for the languages of the indexed paths
extractSymbols(filePath, content, language) ==
    CASE language \in {"javascript", "typescript"} ->
            extractJavaScriptSymbols(Split(content), filePath, 1)
      [] language = "python" -> extractPythonSymbols(Split(content), filePath, 1)
      [] OTHER -> << >>

----------------------------------------------------------------------------
(* IndexerService: the database and indexFile *)

\* The texts the editor holds for its files
SrcAa ==
    <<"f", "u", "n", "c", "t", "i", "o", "n", " ", "A", "a", "(", ")", " ",
      "{", "}">>

SrcBB ==
    <<"f", "u", "n", "c", "t", "i", "o", "n", " ", "B", "B", "(", ")", " ",
      "{", "}">>

SrcClass ==
    <<"c", "l", "a", "s", "s", " ", "A", " ", "{", "\n", "a", "s", "y",
      "n", "c", " ", "f", "u", "n", "c", "t", "i", "o", "n", " ", "b",
      "(", ")", " ", "{", "}">>

SrcPy ==
    <<"c", "l", "a", "s", "s", " ", "A", ":", "\n", " ", " ", "d", "e",
      "f", " ", "b", "(", "s", "e", "l", "f", ")", ":">>

Contents == {SrcAa, SrcBB, SrcClass}

\* What the editor submits: any of the texts for a.ts, the one text of b.py
EditorFiles ==
    [filePath : {"a.ts"}, content : Contents] \cup [filePath : {"b.py"}, content : {SrcPy}]

\* A statement handed to the database: db.get of getFileIndex, or one of the
\* db.run / stmt.run of storeFileIndex.  call and repeat tell which indexFile
\* call issued it and whether that call repeated a completed one.
Stmt(op, call, repeat, arg) == [op |-> op, call |-> call, repeat |-> repeat, arg |-> arg]

\* SELECT * FROM file_index WHERE file_path = ? : the rows found (none or one)
getFileIndex(table, filePath) == {row \in table : row.file_path = filePath}

\* existingIndex && existingIndex.hash === hash
HashUnchanged(existingIndex, hash) ==
    existingIndex # {} /\ \A row \in existingIndex : row.hash = hash

RECURSIVE InsertSymbols(_, _, _, _)
InsertSymbols(symbols, call, repeat, i) ==
    IF i > Len(symbols) THEN << >>
    ELSE <<Stmt("insert", call, repeat, symbols[i])>>
         \o InsertSymbols(symbols, call, repeat, i + 1)

\* The statements storeFileIndex queues inside db.serialize, in order
storeFileIndex(fileIndex, call, repeat) ==
    << Stmt("replace", call, repeat,
            [file_path |-> fileIndex.filePath, content |-> fileIndex.content,
             language |-> fileIndex.language, hash |-> fileIndex.hash,
             last_modified |-> fileIndex.lastModified]),
       Stmt("delete", call, repeat, fileIndex.filePath) >>
    \o InsertSymbols(fileIndex.symbols, call, repeat, 1)

\* 'index:file' -> indexFile(filePath, content) up to `await this.getFileIndex(filePath)`
IndexFile(filePath, content) ==
    /\ clock < MaxIndexCalls
    /\ clock' = clock + 1
    /\ LET again == /\ submitted[filePath].content = content
                    /\ submitted[filePath].id \in completed
       IN dbQueue' = Append(dbQueue,
              Stmt("get", clock + 1, again,
                   [filePath |-> filePath, content |-> content,
                    language |-> getLanguageFromPath(filePath),
                    hash |-> generateHash(content),
                    lastModified |-> clock + 1]))
    /\ submitted' = [submitted EXCEPT ![filePath] =
                         [id |-> clock + 1, content |-> content,
                          prev |-> submitted[filePath].content, quiet |-> dbQueue = << >>]]
    /\ UNCHANGED <<file_index, code_symbols, indexLog, completed, searchResult>>

\* The db.get of getFileIndex answers and indexFile runs to its end
IndexFileResume ==
    /\ dbQueue # << >>
    /\ Head(dbQueue).op = "get"
    /\ LET s == Head(dbQueue)
           fileIndex == s.arg
           existingIndex == getFileIndex(file_index, fileIndex.filePath)
       IN IF HashUnchanged(existingIndex, fileIndex.hash)
          THEN /\ dbQueue' = Tail(dbQueue)
               /\ indexLog' = [filePath |-> fileIndex.filePath, outcome |-> "skipped"]
          ELSE /\ dbQueue' = Tail(dbQueue) \o
                    storeFileIndex(
                        [filePath |-> fileIndex.filePath, content |-> fileIndex.content,
                         symbols |-> extractSymbols(fileIndex.filePath, fileIndex.content,
                                                    fileIndex.language),
                         lastModified |-> fileIndex.lastModified,
                         language |-> fileIndex.language, hash |-> fileIndex.hash],
                        s.call, s.repeat)
               /\ indexLog' = [filePath |-> fileIndex.filePath, outcome |-> "indexed"]
    /\ completed' = completed \cup {Head(dbQueue).call}
    /\ UNCHANGED <<file_index, code_symbols, clock, submitted, searchResult>>

\* The next statement of storeFileIndex is an insert and fails in the database:
\* stmt.run is given no callback, nothing is rolled back and the statements
\* after it still run
DbRunFails ==
    /\ dbQueue # << >>
    /\ Head(dbQueue).op = "insert"
    /\ dbQueue' = Tail(dbQueue)
    /\ UNCHANGED <<file_index, code_symbols, clock, indexLog, submitted, completed, searchResult>>

\* The database executes the next statement of storeFileIndex
DbRun ==
    /\ dbQueue # << >>
    /\ Head(dbQueue).op \in {"replace", "delete", "insert"}
    /\ LET s == Head(dbQueue)
       IN CASE s.op = "replace" ->
                 /\ file_index' = {row \in file_index : row.file_path # s.arg.file_path}
                                      \cup {s.arg}
                 /\ UNCHANGED code_symbols
            [] s.op = "delete" ->
                 /\ code_symbols' = {sym \in code_symbols : sym.filePath # s.arg}
                 /\ UNCHANGED file_index
            [] s.op = "insert" ->
                 /\ code_symbols' = IF \E sym \in code_symbols : sym.id = s.arg.id
                                    THEN code_symbols
                                    ELSE code_symbols \cup {s.arg}
                 /\ UNCHANGED file_index
    /\ dbQueue' = Tail(dbQueue)
    /\ UNCHANGED <<clock, indexLog, submitted, completed, searchResult>>

----------------------------------------------------------------------------
(* IndexerService.search *)

\* ASCII case folding, as the LIKE operator of SQLite does it
Fold(c) == IF \E i \in 1..Len(Upper) : Upper[i] = c THEN Lower[IndexIn(Upper, c)] ELSE c

\* The pieces of a LIKE pattern between its % wildcards
RECURSIVE Segments(_)
Segments(pattern) ==
    LET marks == {i \in 1..Len(pattern) : pattern[i] = "%"}
    IN IF marks = {} THEN <<pattern>>
       ELSE LET m == CHOOSE i \in marks : \A j \in marks : i <= j
            IN <<SubSeq(pattern, 1, m - 1)>> \o Segments(SubSeq(pattern, m + 1, Len(pattern)))

\* A piece matches the text at position p: _ stands for any one character
SegAt(seg, text, p) ==
    /\ p >= 1
    /\ p + Len(seg) - 1 <= Len(text)
    /\ \A k \in 1..Len(seg) : seg[k] = "_" \/ Fold(seg[k]) = Fold(text[p + k - 1])

\* Pieces k..last placed leftmost from p on: the position after them, 0 when they do not fit
RECURSIVE Place(_, _, _, _, _)
Place(segs, k, last, text, p) ==
    IF k > last THEN p
    ELSE LET fits == {q \in p..(Len(text) + 1) : SegAt(segs[k], text, q)}
         IN IF fits = {} THEN 0
            ELSE Place(segs, k + 1, last, text,
                       (CHOOSE q \in fits : \A r \in fits : q <= r) + Len(segs[k]))

\* text LIKE pattern
Like(text, pattern) ==
    LET segs == Segments(pattern)
        n == Len(segs)
    IN IF n = 1 THEN Len(text) = Len(pattern) /\ SegAt(pattern, text, 1)
       ELSE LET p == Place(segs, 2, n - 1, text, Len(segs[1]) + 1)
                end == Len(text) - Len(segs[n]) + 1
            IN /\ SegAt(segs[1], text, 1)
               /\ p # 0
               /\ end >= p
               /\ SegAt(segs[n], text, end)

\* searchTerm = `%${query}%` and `${query}%`
SearchTerm(query) == <<"%">> \o query \o <<"%">>

PrefixTerm(query) == query \o <<"%">>

\* a < b in the order of ORDER BY name (byte-wise comparison)
NameLess(a, b) ==
    \E k \in 1..(Len(a) + 1) :
        /\ k <= Len(b)
        /\ \A j \in 1..(k - 1) : a[j] = b[j]
        /\ k > Len(a) \/ CharCode(a[k]) < CharCode(b[k])

\* CASE WHEN name = ? THEN 1 WHEN name LIKE ? THEN 2 ELSE 3 END
SearchRank(row, query) ==
    IF row.name = query THEN 1
    ELSE IF Like(row.name, PrefixTerm(query)) THEN 2
    ELSE 3

\* WHERE name LIKE ? OR signature LIKE ?
SearchMatches(table, query) ==
    {row \in table : \/ Like(row.name, SearchTerm(query))
                     \/ Like(row.signature, SearchTerm(query))}

\* The orders in which the rows may come: sorted by rank, then by name
Sorted(rows, rank) ==
    {f \in [1..Cardinality(rows) -> rows] :
        /\ \A i, j \in 1..Cardinality(rows) : i # j => f[i] # f[j]
        /\ \A i, j \in 1..Cardinality(rows) :
              i < j => \/ rank[f[i]] < rank[f[j]]
                       \/ rank[f[i]] = rank[f[j]] /\ ~NameLess(f[j].name, f[i].name)}

\* LIMIT n
Limit(rows, n) == SubSeq(rows, 1, IF Len(rows) < n THEN Len(rows) ELSE n)

\* The answers the SELECT of search(query) can give on a table
search(table, query) ==
    {Limit(rows, SearchLimit) :
        rows \in Sorted(SearchMatches(table, query), [row \in table |-> SearchRank(row, query)])}

\* Queries typed into the search box
Queries == {<<"a">>, <<"A", "a">>, <<"b">>, <<"_">>}

\* 'index:search' -> search(query): db.all is handed to the database
Search(query) ==
    /\ dbQueue' = Append(dbQueue, Stmt("all", 0, FALSE, query))
    /\ UNCHANGED <<file_index, code_symbols, clock, indexLog, submitted, completed,
                   searchResult>>

\* The database answers db.all and search() resolves with the rows
DbAll ==
    /\ dbQueue # << >>
    /\ Head(dbQueue).op = "all"
    /\ \E rows \in search(code_symbols, Head(dbQueue).arg) :
          searchResult' = [query |-> Head(dbQueue).arg, rows |-> rows]
    /\ dbQueue' = Tail(dbQueue)
    /\ UNCHANGED <<file_index, code_symbols, clock, indexLog, submitted, completed>>

----------------------------------------------------------------------------
(* EmbeddingsService *)

\* generateSimpleEmbedding: the char codes of the first 384 characters, zero
\* elsewhere.  The division by the magnitude is left out: it changes neither
\* the length of the vector nor any cosine similarity.
generateSimpleEmbedding(text) ==
    [i \in 1..embeddingDimensions |-> IF i <= Len(text) THEN CharCode(text[i]) ELSE 0]

\* What the POST to the local embedding service gives: no answer, or the
\* vector in response.data.embedding
ServiceAnswers == {"unavailable", <<1, 0>>, <<1, 1>>}

\* generateEmbedding once the POST has ended
generateEmbedding(text, answer) ==
    IF answer = "unavailable" THEN generateSimpleEmbedding(text) ELSE answer

\* serializeEmbedding: 8 bytes per number; deserializeEmbedding reads them back
serializeEmbedding(embedding) == [length |-> 8 * Len(embedding), doubles |-> embedding]

deserializeEmbedding(buffer) == SubSeq(buffer.doubles, 1, buffer.length \div 8)

\* The sum of a[i] * b[i] over lo..hi
RECURSIVE DotProduct(_, _, _, _)
DotProduct(a, b, lo, hi) ==
    IF lo > hi THEN 0
    ELSE IF lo = hi THEN a[lo] * b[lo]
    ELSE LET mid == (lo + hi) \div 2
         IN DotProduct(a, b, lo, mid) + DotProduct(a, b, mid + 1, hi)

\* calculateCosineSimilarity throws 'Vectors must have the same length'
Mismatch(a, b) == Len(a) # Len(b)

\* calculateCosineSimilarity for vectors of one length, as the square of the
\* similarity: n / d (vector components are not negative here)
calculateCosineSimilarity(a, b) ==
    LET dotProduct == DotProduct(a, b, 1, Len(a))
        magnitudeA == DotProduct(a, a, 1, Len(a))
        magnitudeB == DotProduct(b, b, 1, Len(b))
    IN IF magnitudeA = 0 \/ magnitudeB = 0 THEN [n |-> 0, d |-> 1]
       ELSE [n |-> dotProduct * dotProduct, d |-> magnitudeA * magnitudeB]

\* similarity > 0.7
AboveFloor(sim) ==
    SimilarityFloorDen * SimilarityFloorDen * sim.n > SimilarityFloorNum * SimilarityFloorNum * sim.d

SimLess(x, y) == x.n * y.d < y.n * x.d

\* results.sort((a, b) => b.similarity - a.similarity) over rows that come in any order
BySimilarity(rows, target) ==
    {f \in [1..Cardinality(rows) -> rows] :
        /\ \A i, j \in 1..Cardinality(rows) : i # j => f[i] # f[j]
        /\ \A i, j \in 1..Cardinality(rows) :
              i < j => ~SimLess(calculateCosineSimilarity(target, deserializeEmbedding(f[i].embedding)),
                                calculateCosineSimilarity(target, deserializeEmbedding(f[j].embedding)))}

\* Records, locations and texts the service is called with
EmbeddingIds == {"e1", "e2"}

Locations == {[filePath |-> "f.ts", startLine |-> 1, endLine |-> 1],
              [filePath |-> "f.ts", startLine |-> 2, endLine |-> 2]}

Texts == {<<"\t">>, <<"\t", "\n">>}

Limits == {1, 5}

EmbResult(op, outcome, rows, mismatch) ==
    [op |-> op, outcome |-> outcome, rows |-> rows, mismatch |-> mismatch]

\* EmbeddingsService.initialize
EmbeddingsInitialize ==
    /\ ~embInitialized
    /\ embInitialized' = TRUE
    /\ UNCHANGED <<embeddings, embCalls, embResult>>

\* A call up to its first await: the POST of generateEmbedding for embedCode and
\* semanticSearch, the db.get of getEmbeddingByLocation for findSimilarCode
EmbBegin(call) ==
    /\ Len(embCalls) < MaxEmbedInflight
    /\ embCalls' = Append(embCalls, call)
    /\ UNCHANGED <<embInitialized, embeddings, embResult>>

embedCode(id, loc, content) ==
    EmbBegin([op |-> "embedCode", id |-> id, loc |-> loc, text |-> content, limit |-> 0,
              initialized |-> embInitialized])

semanticSearch(query, limit) ==
    EmbBegin([op |-> "semanticSearch", id |-> "", loc |-> [filePath |-> "", startLine |-> 0, endLine |-> 0],
              text |-> query, limit |-> limit, initialized |-> embInitialized])

findSimilarCode(loc, limit) ==
    EmbBegin([op |-> "findSimilarCode", id |-> "", loc |-> loc, text |-> << >>, limit |-> limit,
              initialized |-> embInitialized])

\* embedCode after generateEmbedding: storeEmbedding, INSERT OR REPLACE by id.
\* When generateEmbedding threw 'not initialized' the catch block only logs.
EmbedCodeFinish(i, answer) ==
    /\ i \in 1..Len(embCalls)
    /\ embCalls[i].op = "embedCode"
    /\ LET call == embCalls[i]
           row == [id |-> call.id, filePath |-> call.loc.filePath, content |-> call.text,
                   embedding |-> serializeEmbedding(generateEmbedding(call.text, answer)),
                   startLine |-> call.loc.startLine, endLine |-> call.loc.endLine]
       IN IF call.initialized
          THEN /\ embeddings' = {r \in embeddings : r.id # call.id} \cup {row}
               /\ embResult' = EmbResult("embedCode", "resolved", << >>, FALSE)
          ELSE /\ UNCHANGED embeddings
               /\ embResult' = EmbResult("embedCode", "resolved", << >>, FALSE)
    /\ embCalls' = RemoveAt(embCalls, i)
    /\ UNCHANGED embInitialized

\* The result list built from the rows kept: the loop over rows throws at the first
\* pair of vectors of different length, inside the db.all callback, so the
\* promise of the call is neither resolved nor rejected
Compared(rows, kept, target, limit, op) ==
    IF \E row \in rows : Mismatch(target, deserializeEmbedding(row.embedding))
    THEN {EmbResult(op, "unsettled", << >>, TRUE)}
    ELSE {EmbResult(op, "resolved", Limit(list, limit), FALSE) :
             list \in BySimilarity(kept, target)}

\* semanticSearch after generateEmbedding: SELECT * FROM embeddings, every row kept
SemanticSearchFinish(i, answer) ==
    /\ i \in 1..Len(embCalls)
    /\ embCalls[i].op = "semanticSearch"
    /\ LET call == embCalls[i]
           queryEmbedding == generateEmbedding(call.text, answer)
       IN IF call.initialized
          THEN embResult' \in Compared(embeddings, embeddings, queryEmbedding,
                                       call.limit, "semanticSearch")
          ELSE embResult' = EmbResult("semanticSearch", "resolved", << >>, FALSE)
    /\ embCalls' = RemoveAt(embCalls, i)
    /\ UNCHANGED <<embInitialized, embeddings>>

\* Rows at the location / away from it
AtLocation(table, loc) ==
    {row \in table : /\ row.filePath = loc.filePath
                     /\ row.startLine = loc.startLine
                     /\ row.endLine = loc.endLine}

\* findSimilarCode from the answer of getEmbeddingByLocation on: db.get gives one
\* of the rows at the location, db.all the rows WHERE file_path != ? OR
\* start_line != ? OR end_line != ?
FindSimilarFinish(i) ==
    /\ i \in 1..Len(embCalls)
    /\ embCalls[i].op = "findSimilarCode"
    /\ LET call == embCalls[i]
           found == AtLocation(embeddings, call.loc)
       IN IF found = {}
          THEN embResult' = EmbResult("findSimilarCode", "resolved", << >>, FALSE)
          ELSE \E row \in found :
                 LET targetEmbedding == deserializeEmbedding(row.embedding)
                 IN embResult' \in
                      Compared(embeddings \ found,
                               {r \in embeddings \ found :
                                    /\ ~Mismatch(targetEmbedding, deserializeEmbedding(r.embedding))
                                    /\ AboveFloor(calculateCosineSimilarity(
                                           targetEmbedding, deserializeEmbedding(r.embedding)))},
                               targetEmbedding, call.limit, "findSimilarCode")
    /\ embCalls' = RemoveAt(embCalls, i)
    /\ UNCHANGED <<embInitialized, embeddings>>

----------------------------------------------------------------------------
(* Specification of the dispatcher *)

ModelIds == {"codellama-7b-instruct", "codellama-70b-instruct", "claude-code", "gpt-4-turbo",
             "anthropic-updated", "openai-updated", "mistral-updated", "no-such-model"}

\* One call of the editor, counted against the budget
Call(A) == ops < MaxOps /\ ops' = ops + 1 /\ A /\ UNCHANGED <<idxVars, embVars>>

\* A continuation of a call already made
Continue(A) == UNCHANGED ops /\ A /\ UNCHANGED <<idxVars, embVars>>

Next ==
    \/ Continue(InitializeBegin)
    \/ \E probeOk \in BOOLEAN : Continue(InitializeResume(probeOk))
    \/ \E modelId \in ModelIds : Call(SwitchModel(modelId))
    \/ Call(clearTransactions)
    \/ Len(inflight) < MaxInflight /\ \E context \in ChatContexts : Call(ChatBegin(context))
    \/ \E i \in 1..Len(inflight), backendOk \in BOOLEAN, response \in Responses :
          Continue(ChatFinish(i, backendOk, response))
    \/ \E backendOk \in BOOLEAN, response \in Responses :
          Call(GetCompletion(backendOk, response))
    \/ \E position \in Positions, backendOk \in BOOLEAN, response \in Responses :
          Call(GetInlineCompletion(position, backendOk, response))
    \/ \E provider \in Providers, apiKey \in ApiKeys : Call(UpdateApiKey(provider, apiKey))
    \/ \E modelId \in ModelIds : Call(removeModel(modelId))
    \/ Call(cleanup)

Spec == Init /\ [][Next]_vars

\* The timeout of an awaited axios.post expires: the call ends in a failure
TimedOut ==
    \E i \in 1..Len(inflight) :
        HasTimeout(inflight[i].kind) /\ Continue(ChatFinish(i, FALSE, ""))

\* A chat() call waiting at a backend is certain to end only where the adapter
\* gave its request a timeout; a backend is free never to answer
SpecDispatch == Spec /\ WF_vars(TimedOut)

----------------------------------------------------------------------------
(* Specification of the transaction log running past its capacity: after   *)
(* start-up the log is filled by repeated switches to the current model,   *)
(* and near the capacity every logging call and clearTransactions is tried *)

NextLog ==
    \/ Continue(InitializeBegin)
    \/ \E probeOk \in BOOLEAN : Continue(InitializeResume(probeOk))
    \/ initPc = "done" /\ txSeq < LogFill /\ Continue(SwitchModel(currentModel))
    \/ txSeq >= LogFill /\ txSeq < LogMaxAppends
          /\ \E modelId \in ModelIds : Continue(SwitchModel(modelId))
    \/ txSeq >= LogFill /\ txSeq < LogMaxAppends /\ Len(inflight) < MaxInflight
          /\ \E context \in ChatContexts : Continue(ChatBegin(context))
    \/ \E i \in 1..Len(inflight), backendOk \in BOOLEAN, response \in Responses :
          Continue(ChatFinish(i, backendOk, response))
    \/ txSeq >= LogFill /\ Len(transactions) > 0 /\ Continue(clearTransactions)

SpecLog == Init /\ [][NextLog]_vars

----------------------------------------------------------------------------
(* Specification of concurrent logging: as SpecLog, with several chat()    *)
(* calls suspended at their adapter call while others log                  *)

NextConcurrent ==
    \/ Continue(InitializeBegin)
    \/ \E probeOk \in BOOLEAN : Continue(InitializeResume(probeOk))
    \/ initPc = "done" /\ txSeq < LogFill /\ Continue(SwitchModel(currentModel))
    \/ txSeq >= LogFill /\ txSeq < LogMaxAppends
          /\ \E modelId \in ModelIds : Continue(SwitchModel(modelId))
    \/ txSeq >= LogFill /\ txSeq < LogMaxAppends /\ Len(inflight) < MaxConcurrent
          /\ \E context \in ChatContexts : Continue(ChatBegin(context))
    \/ \E i \in 1..Len(inflight), backendOk \in BOOLEAN, response \in Responses :
          Continue(ChatFinish(i, backendOk, response))

SpecConcurrent == Init /\ [][NextConcurrent]_vars

----------------------------------------------------------------------------
(* Specification of the registry: start-up, addModel, removeModel and      *)
(* setCurrentModel, with descriptors of local adapters added               *)

RegistryIds == {"codellama-7b-instruct", "gpt-4-turbo", "llama-3.1-70b", "deepseek-coder"}

NextRegistry ==
    \/ Continue(InitializeBegin)
    \/ \E probeOk \in BOOLEAN : Continue(InitializeResume(probeOk))
    \/ \E config \in AddedConfigs, probeOk \in BOOLEAN : Call(AddModel(config, probeOk))
    \/ \E modelId \in RegistryIds : Call(removeModel(modelId))
    \/ \E modelId \in RegistryIds : Call(SwitchModel(modelId))

SpecRegistry == Init /\ [][NextRegistry]_vars

----------------------------------------------------------------------------
(* Specification of the symbol index: the editor submits indexFile calls   *)
(* without awaiting them and the database works through its statements     *)

InitIndex == Init /\ envKeys = {}

NextIndex ==
    \/ \E file \in EditorFiles :
          IndexFile(file.filePath, file.content) /\ UNCHANGED <<mgrVars, ops, embVars>>
    \/ IndexFileResume /\ UNCHANGED <<mgrVars, ops, embVars>>
    \/ DbRun /\ UNCHANGED <<mgrVars, ops, embVars>>

SpecIndex == InitIndex /\ [][NextIndex]_vars

\* The callback of the queued SELECT of getFileIndex runs: the step of
\* IndexFileResume seen through the one variable only it changes
GetAnswered ==
    /\ dbQueue # << >>
    /\ Head(dbQueue).op = "get"
    /\ completed' = completed \cup {Head(dbQueue).call}

\* The database answers every statement it was given: a queued SELECT of
\* getFileIndex and a queued statement of storeFileIndex are executed in the end
SpecIndexFair ==
    /\ SpecIndex
    /\ WF_completed(GetAnswered)
    /\ WF_vars(DbRun /\ UNCHANGED <<mgrVars, ops, embVars>>)

----------------------------------------------------------------------------
(* Specification of searching the symbol index: a few files are indexed    *)
(* and the editor searches while the database works                        *)

NextSearch ==
    \/ \E file \in EditorFiles :
          clock < MaxSearchFiles /\ IndexFile(file.filePath, file.content)
              /\ UNCHANGED <<mgrVars, ops, embVars>>
    \/ IndexFileResume /\ UNCHANGED <<mgrVars, ops, embVars>>
    \/ DbRun /\ UNCHANGED <<mgrVars, ops, embVars>>
    \/ \E query \in Queries :
          ops < MaxSearches /\ ops' = ops + 1 /\ Search(query)
              /\ UNCHANGED <<mgrVars, embVars>>
    \/ DbAll /\ UNCHANGED <<mgrVars, ops, embVars>>

SpecSearch == InitIndex /\ [][NextSearch]_vars

\* The same with statements that fail in the database
NextStore ==
    \/ NextSearch
    \/ DbRunFails /\ UNCHANGED <<mgrVars, ops, embVars>>

SpecStore == InitIndex /\ [][NextStore]_vars

----------------------------------------------------------------------------
(* Specification of the embedding store *)

EmbCall(A) == ops < MaxEmbedOps /\ ops' = ops + 1 /\ A /\ UNCHANGED <<mgrVars, idxVars>>

EmbContinue(A) == A /\ UNCHANGED <<mgrVars, ops, idxVars>>

NextEmbed ==
    \/ EmbContinue(EmbeddingsInitialize)
    \/ \E id \in EmbeddingIds, loc \in Locations, content \in Texts :
          EmbCall(embedCode(id, loc, content))
    \/ \E query \in Texts, limit \in Limits : EmbCall(semanticSearch(query, limit))
    \/ \E loc \in Locations, limit \in Limits : EmbCall(findSimilarCode(loc, limit))
    \/ \E i \in 1..Len(embCalls), answer \in ServiceAnswers :
          EmbContinue(EmbedCodeFinish(i, answer))
    \/ \E i \in 1..Len(embCalls), answer \in ServiceAnswers :
          EmbContinue(SemanticSearchFinish(i, answer))
    \/ \E i \in 1..Len(embCalls) : EmbContinue(FindSimilarFinish(i))

SpecEmbed == InitIndex /\ [][NextEmbed]_vars

----------------------------------------------------------------------------
(* C1: getTransactions() is exactly the most recent min(k, 100) of the k   *)
(* transactions appended since the last clearTransactions, in append       *)
(* order; so the log never holds more than 100 entries and the evicted     *)
(* entries are the oldest ones.                                            *)

C1_BoundedLog ==
    LET k == Len(appended)
        n == IF k < 100 THEN k ELSE 100
    IN  /\ Len(getTransactions) = n
        /\ \A i \in 1..n : getTransactions[i] = appended[k - n + i]

\* More than 100 transactions were appended and the oldest ones are gone
C1_Witness ==
    /\ Len(appended) > 100
    /\ Len(getTransactions) = 100
    /\ getTransactions[1] = appended[Len(appended) - 99]

----------------------------------------------------------------------------
(* C3: in every reachable state the id selectOptimalModel returns, for any *)
(* task type and preference, belongs to a registered adapter whose         *)
(* isAvailable() is true.                                                  *)

C3_OnlyReadySelected ==
    \A taskType \in TaskTypes, preferLocal \in PreferLocalValues :
        LET sel == selectOptimalModel(modelConfigs, models, currentModel, taskType,
                                      "context", preferLocal)
        IN  sel.ok => MapHas(models, sel.id) /\ isAvailable(MapGet(models, sel.id))

----------------------------------------------------------------------------
(* C4: whenever no adapter is ready (none registered, or every registered  *)
(* adapter answers isAvailable() with false), a chat call returns one of   *)
(* the fallback strings without throwing and an inline completion call     *)
(* returns the empty string without throwing.                              *)

ChatFallbacks == {ChatUnavailable, ChatNotSelected, ChatFallback}

C4_DegradedMode ==
    [][ NoneReady(models) =>
          /\ \A context \in ChatContexts :
                ChatBegin(context) =>
                    /\ inflight' = inflight
                    /\ lastResult'.outcome = "return"
                    /\ lastResult'.value \in ChatFallbacks
          /\ \A position \in Positions, backendOk \in BOOLEAN, response \in Responses :
                GetInlineCompletion(position, backendOk, response) =>
                    /\ lastResult'.outcome = "return"
                    /\ lastResult'.value = "" ]_vars

----------------------------------------------------------------------------
(* C5: with at least one registered adapter, every chat call ends by       *)
(* returning a string, whatever the adapter does and whatever context      *)
(* (with history, without history, none) was passed; when the selection or *)
(* the adapter failed, the string is the fixed fallback and an error       *)
(* transaction was appended by the call.                                   *)

ChatEnds ==
    \/ \E context \in ChatContexts : ChatBegin(context) /\ inflight' = inflight
    \/ \E i \in 1..Len(inflight), backendOk \in BOOLEAN, response \in Responses :
          ChatFinish(i, backendOk, response)

C5_ChatNeverThrows ==
    [][ (Len(models) > 0 /\ ChatEnds) =>
          /\ lastResult'.outcome = "return"
          /\ lastResult'.failed =>
                /\ lastResult'.value = ChatFallback
                /\ Len(appended') > Len(appended)
                /\ appended'[Len(appended')].type = "error" ]_vars

----------------------------------------------------------------------------
(* C6: every getInlineCompletion call returns a string, and the string is  *)
(* empty whenever anything failed (no adapter registered, selection        *)
(* failure, unusable position, adapter not initialized, backend failure).  *)

C6_InlineNeverThrows ==
    lastResult.op = "inline" =>
        /\ lastResult.outcome = "return"
        /\ lastResult.failed => lastResult.value = ""

\* An inline completion failed past the empty-registry check and returned ''
C6_Witness ==
    /\ lastResult.op = "inline"
    /\ lastResult.failed
    /\ lastResult.outcome = "return"
    /\ lastResult.value = ""
    /\ Len(models) > 0
    /\ ops > 0

----------------------------------------------------------------------------
(* C7: for every task type, when preferLocal is not false and a local      *)
(* adapter is among the candidates left by the specialty and latency       *)
(* filters, selectOptimalModel returns a local adapter.                    *)

C7_LocalPreferred ==
    \A taskType \in TaskTypes, preferLocal \in PreferLocalValues :
        LET filtered == FastFilter(SpecialtyFilter(getAvailableModels(modelConfigs, models),
                                                   taskType), taskType)
            sel == selectOptimalModel(modelConfigs, models, currentModel, taskType,
                                      "context", preferLocal)
        IN  (preferLocal # "false" /\ \E i \in 1..Len(filtered) : filtered[i].isLocal) =>
                /\ sel.ok
                /\ MapHas(modelConfigs, sel.id)
                /\ MapGet(modelConfigs, sel.id).isLocal

\* After start-up a local and a cloud adapter both pass the filters for
\* 'chat' and, with preferLocal true, the local one is selected
C7_Witness ==
    LET filtered == FastFilter(SpecialtyFilter(getAvailableModels(modelConfigs, models),
                                               "chat"), "chat")
        sel == selectOptimalModel(modelConfigs, models, currentModel, "chat",
                                  "context", "true")
    IN  /\ initPc = "done"
        /\ \E i \in 1..Len(filtered) : filtered[i].isLocal
        /\ \E i \in 1..Len(filtered) : ~filtered[i].isLocal
        /\ sel.ok
        /\ MapGet(modelConfigs, sel.id).isLocal

----------------------------------------------------------------------------
(* C8: when no candidate is left after the filtering steps,                *)
(* selectOptimalModel fails with the no-model error instead of returning   *)
(* an id.                                                                  *)

C8_NoCandidateFails ==
    \A taskType \in TaskTypes, preferLocal \in PreferLocalValues :
        Len(Candidates(modelConfigs, models, taskType, preferLocal)) = 0 =>
            ~selectOptimalModel(modelConfigs, models, currentModel, taskType,
                                "context", preferLocal).ok

----------------------------------------------------------------------------
(* C9: switching to id succeeds exactly when id is a registered adapter    *)
(* that is ready: then the pointer is id, exactly one info transaction was *)
(* appended and the handler answers true; otherwise the unknown-model      *)
(* error is raised, pointer and log are unchanged and the handler answers  *)
(* false.                                                                  *)

C9_SwitchModel ==
    [][ \A modelId \in ModelIds :
          SwitchModel(modelId) =>
            IF MapHas(models, modelId) /\ isAvailable(MapGet(models, modelId))
            THEN /\ lastResult'.value = "true"
                 /\ currentModel' = modelId
                 /\ Len(appended') = Len(appended) + 1
                 /\ appended'[Len(appended')].type = "info"
            ELSE /\ lastResult'.value = "false"
                 /\ lastResult'.outcome = "throw"
                 /\ UNCHANGED <<currentModel, transactions>> ]_vars

----------------------------------------------------------------------------
(* C10: idempotent indexing.  When indexFile(path, content) has completed  *)
(* and indexFile(path, content) is called again with the same content, no  *)
(* statement of the second call changes a row: it adds, removes and        *)
(* changes no symbol record, and the stored hash and last-modified         *)
(* timestamp of the path stay as they are.                                 *)

C10_IdempotentIndexing ==
    [][ (dbQueue # << >> /\ Head(dbQueue).repeat /\ (IndexFileResume \/ DbRun))
          => /\ file_index' = file_index
             /\ code_symbols' = code_symbols ]_vars

----------------------------------------------------------------------------
(* C11: hash-triggered re-index.  After indexFile(path, c1) has run to its *)
(* end and indexFile(path, c2) with c2 # c1 has run to its end, the        *)
(* symbols stored for path are exactly the symbols extracted from c2: no   *)
(* symbol of c1 is left and none is missing (generateHash(c1) and          *)
(* generateHash(c2) have to differ for this).                              *)

\* The elements of a sequence
Range(seq) == {seq[i] : i \in 1..Len(seq)}

\* Rows of code_symbols owned by a path
SymbolsOf(filePath) == {sym \in code_symbols : sym.filePath = filePath}

\* The call submitted last for the path followed a finished call with another
\* text, and has itself run to its end, its statements included
ReindexedInTurn(filePath) ==
    LET last == submitted[filePath]
    IN /\ last.quiet
       /\ last.prev # << >>
       /\ last.prev # last.content
       /\ last.id \in completed
       /\ \A k \in 1..Len(dbQueue) : dbQueue[k].call # last.id

C11_HashTriggeredReindex ==
    \A filePath \in Paths :
        ReindexedInTurn(filePath)
            => SymbolsOf(filePath) =
                   Range(extractSymbols(filePath, submitted[filePath].content,
                                        getLanguageFromPath(filePath)))

----------------------------------------------------------------------------
(* C12: search(query) returns the first 50 elements of the reference list: *)
(* all stored symbols whose name or signature contains the query as a      *)
(* case-insensitive literal substring, those whose name equals the query   *)
(* first, then those whose name starts with the query, then the other      *)
(* matches, ordered by name within each group.                             *)

\* text contains the query, letter case aside and every character taken literally
Contains(text, query) ==
    \E p \in 1..(Len(text) + 1) :
        /\ p + Len(query) - 1 <= Len(text)
        /\ \A k \in 1..Len(query) : Fold(query[k]) = Fold(text[p + k - 1])

ReferenceRank(row, query) ==
    IF row.name = query THEN 1
    ELSE IF /\ Len(query) <= Len(row.name)
            /\ \A k \in 1..Len(query) : Fold(query[k]) = Fold(row.name[k]) THEN 2
    ELSE 3

ReferenceList(table, query) ==
    {Limit(rows, SearchLimit) :
        rows \in Sorted({row \in table : Contains(row.name, query) \/ Contains(row.signature, query)},
                        [row \in table |-> ReferenceRank(row, query)])}

C12_SearchReference ==
    [][DbAll => searchResult'.rows \in ReferenceList(code_symbols, searchResult'.query)]_vars

----------------------------------------------------------------------------
(* C13: findSimilarCode *)

\* The answers the contract allows: nothing when no record is stored at the
\* location; otherwise, for the looked-up record, the first limit of the other
\* records whose similarity with it exceeds 0.7, by descending similarity
SimilarReference(table, loc, limit) ==
    IF AtLocation(table, loc) = {} THEN {<< >>}
    ELSE UNION {LET target == deserializeEmbedding(row.embedding)
                    others == {r \in table \ {row} :
                                 /\ ~Mismatch(target, deserializeEmbedding(r.embedding))
                                 /\ AboveFloor(calculateCosineSimilarity(target, deserializeEmbedding(r.embedding)))}
                IN {Limit(list, limit) : list \in BySimilarity(others, target)} :
                row \in AtLocation(table, loc)}

\* C13: findSimilarCode returns [] without error when no record is stored at
\* exactly the location, and otherwise the first limit elements, by descending
\* similarity, of all stored records other than the looked-up record whose
\* cosine similarity with the looked-up vector is greater than 0.7.
C13_FindSimilarCode ==
    [][\A i \in 1..Len(embCalls) :
          FindSimilarFinish(i) =>
              /\ embResult'.outcome = "resolved"
              /\ embResult'.rows \in SimilarReference(embeddings, embCalls[i].loc, embCalls[i].limit)]_vars

----------------------------------------------------------------------------
(* C14: vectors of different length *)

\* C14: whenever semanticSearch or findSimilarCode compares two vectors of
\* different length, the call ends and reports a DimensionMismatch failure to
\* its caller: it neither returns similarity results nor stays pending.
C14_DimensionMismatch ==
    [][(embCalls' # embCalls /\ embResult'.mismatch) => embResult'.outcome = "rejected"]_vars

----------------------------------------------------------------------------
(* C15: updating an API key *)

\* C15: updateApiKey(provider, key) re-registers the affected adapters: after
\* the call every adapter that was registered for the provider carries the new
\* credential in its descriptor, and the set of registered adapter ids is the
\* same as before the call.
C15_UpdateApiKey ==
    [][\A provider \in Providers, apiKey \in ApiKeys :
          UpdateApiKey(provider, apiKey) =>
              /\ MapKeys(models') = MapKeys(models)
              /\ \A i \in 1..Len(models) :
                    models[i].config.provider = provider =>
                        /\ MapHas(models', models[i].id)
                        /\ MapGet(models', models[i].id).config.apiKey = apiKey]_vars

----------------------------------------------------------------------------
(* C16: the error transaction of a failed chat *)

\* The error transaction appended last is one of operation 'chat' naming modelId
ErrorNames(txs, modelId) ==
    /\ txs # << >>
    /\ txs[Len(txs)].type = "error"
    /\ txs[Len(txs)].operation = "chat"
    /\ txs[Len(txs)].model \in {NameOf(modelConfigs, modelId), modelId}

\* C16: whenever a chat dispatch fails after an adapter was selected, the error
\* transaction appended for it names the operation 'chat' and the model that
\* was selected and invoked for that dispatch, also when the current-model
\* pointer refers to a different adapter at that moment.
C16_FailureContext ==
    [][/\ \A i \in 1..Len(inflight) :
            (\E response \in Responses : ChatFinish(i, FALSE, response)) =>
                ErrorNames(appended', inflight[i].model)
       /\ \A context \in ChatContexts :
            LET d == ChatDispatch(modelConfigs, models, currentModel, context)
            IN (ChatBegin(context) /\ d.failed /\ d.selected # "" /\ Len(appended') > Len(appended)
                   /\ appended'[Len(appended')].type = "error") =>
                  ErrorNames(appended', d.selected)]_vars

----------------------------------------------------------------------------
(* C17: the specialty filter *)

\* C17: for every registry state and task type, the adapter returned by
\* selectOptimalModel has the task type, 'general-coding' or 'chat' among its
\* specialties.
C17_SpecialtyFilter ==
    \A taskType \in TaskTypes, preferLocal \in PreferLocalValues :
        LET sel == selectOptimalModel(modelConfigs, models, currentModel, taskType,
                                      "context", preferLocal)
        IN  sel.ok =>
                /\ MapHas(modelConfigs, sel.id)
                /\ MapGet(modelConfigs, sel.id).specialties
                       \cap {taskType, "general-coding", "chat"} # {}

----------------------------------------------------------------------------
(* C18: latency narrowing *)

\* latency 'low', or local with latency 'medium'
FastPath(m) == m.latency = "low" \/ (m.isLocal /\ m.latency = "medium")

\* C18: for task types 'inline-completion' and 'chat', whenever the
\* specialty-filtered candidates include an adapter with latency 'low' or a
\* local adapter with latency 'medium', the adapter returned by
\* selectOptimalModel has latency 'low' or is local with latency 'medium'.
C18_LatencyNarrowing ==
    \A taskType \in {"inline-completion", "chat"}, preferLocal \in PreferLocalValues :
        LET filtered == SpecialtyFilter(getAvailableModels(modelConfigs, models), taskType)
            sel == selectOptimalModel(modelConfigs, models, currentModel, taskType,
                                      "context", preferLocal)
        IN  (\E i \in 1..Len(filtered) : FastPath(filtered[i])) =>
                /\ sel.ok
                /\ MapHas(modelConfigs, sel.id)
                /\ FastPath(MapGet(modelConfigs, sel.id))

----------------------------------------------------------------------------
(* C19: the pinned model *)

----------------------------------------------------------------------------
(* C20: the current-model pointer and the dispatch target *)

\* The adapters chat, getCompletion and getInlineCompletion invoke when the
\* current-model pointer is cur
Invoked(cur) ==
    [chat |-> ChatDispatch(modelConfigs, models, cur, "history").selected,
     completion |-> getCompletion(modelConfigs, models, cur, TRUE, "text").selected,
     inline |-> getInlineCompletion(modelConfigs, models, cur, "language", TRUE, "text").selected]

\* C20: the current-model pointer is never the dispatch target: for every
\* registry state and every two ids a, b accepted by setCurrentModel, the
\* adapter invoked by a following chat, getCompletion or getInlineCompletion
\* call is the same after setCurrentModel(a) as after setCurrentModel(b).
C20_PointerNotTarget ==
    \A a, b \in MapKeys(models) :
        (/\ setCurrentModel(modelConfigs, models, currentModel, a).ok
         /\ setCurrentModel(modelConfigs, models, currentModel, b).ok) =>
            Invoked(setCurrentModel(modelConfigs, models, currentModel, a).currentModel)
                = Invoked(setCurrentModel(modelConfigs, models, currentModel, b).currentModel)

----------------------------------------------------------------------------
(* C21: the transactions of a chat dispatch *)

\* The types of the transactions a step appends
NewTypes == [i \in 1..(Len(appended') - Len(appended)) |-> appended'[Len(appended) + i].type]

\* C21: every chat dispatch appends its request transaction before the adapter
\* is invoked and, once the adapter call ends, appends exactly one further
\* transaction for that dispatch, a response on success or an error on failure;
\* no response or error transaction is ever appended for a chat dispatch that
\* did not first append a request.
C21_ChatProtocol ==
    [][/\ \A context \in ChatContexts :
            ChatBegin(context) =>
                LET d == ChatDispatch(modelConfigs, models, currentModel, context)
                IN  IF d.suspend THEN NewTypes = << "request" >>
                    ELSE NewTypes \in {<< >>, << "request", "error" >>}
       /\ \A i \in 1..Len(inflight), backendOk \in BOOLEAN :
            (\E response \in Responses : ChatFinish(i, backendOk, response)) =>
                NewTypes = << IF backendOk THEN "response" ELSE "error" >>]_vars

\* A chat whose adapter call failed: its request is followed by its error
C21_Witness ==
    /\ lastResult.op = "chat"
    /\ lastResult.failed
    /\ inflight = << >>
    /\ Len(appended) >= 2
    /\ appended[Len(appended) - 1].type = "request"
    /\ appended[Len(appended)].type = "error"

----------------------------------------------------------------------------
(* C22: every dispatch is recorded *)

\* C22: each call of chat, getCompletion and getInlineCompletion that invokes
\* an adapter appends at least one transaction to the transaction log, so the
\* log changes across every such call.
C22_DispatchRecorded ==
    [][/\ \A context \in ChatContexts :
            LET d == ChatDispatch(modelConfigs, models, currentModel, context)
            IN  (ChatBegin(context) /\ d.selected # "" /\ MapHas(models, d.selected)
                    /\ context # "none") =>
                   Len(appended') > Len(appended) /\ transactions' # transactions
       /\ \A backendOk \in BOOLEAN, response \in Responses :
            LET r == getCompletion(modelConfigs, models, currentModel, backendOk, response)
            IN  (GetCompletion(backendOk, response) /\ r.selected # ""
                    /\ MapHas(models, r.selected)) =>
                   Len(appended') > Len(appended) /\ transactions' # transactions
       /\ \A position \in Positions \ {"none"}, backendOk \in BOOLEAN, response \in Responses :
            LET r == getInlineCompletion(modelConfigs, models, currentModel, position,
                                         backendOk, response)
            IN  (GetInlineCompletion(position, backendOk, response) /\ r.selected # ""
                    /\ MapHas(models, r.selected)) =>
                   Len(appended') > Len(appended) /\ transactions' # transactions]_vars

----------------------------------------------------------------------------
(* C23: concurrent appends *)

\* C23: for any interleaving of several in-flight chat dispatches and
\* setCurrentModel calls, no appended transaction is lost, duplicated or
\* overwritten: the log holds the last min(100, number of appends) entries in
\* append order, and each dispatch's request entry precedes that dispatch's
\* own response or error entry.
C23_ConcurrentAppends ==
    /\ [](/\ getTransactions = SliceLast(appended, MaxTransactions)
          /\ \A j, k \in 1..Len(appended) : j < k => appended[j].seq < appended[k].seq)
    /\ [][\A i \in 1..Len(inflight) :
            (\E backendOk \in BOOLEAN, response \in Responses : ChatFinish(i, backendOk, response)) =>
                /\ Len(appended') = Len(appended) + 1
                /\ SubSeq(appended', 1, Len(appended)) = appended
                /\ appended'[Len(appended')].type \in {"response", "error"}
                /\ \E k \in 1..Len(appended) :
                      /\ appended[k].seq = inflight[i].request
                      /\ appended[k].type = "request"
                      /\ appended[k].seq < appended'[Len(appended')].seq]_vars

\* Past the capacity of the log, a chat is still suspended while a chat that
\* started after it has logged its request and its response
C23_Witness ==
    /\ Len(appended) > MaxTransactions
    /\ Len(inflight) >= 1
    /\ \E j, k \in 1..Len(appended) :
          /\ j < k
          /\ appended[j].type = "request"
          /\ appended[j].seq > inflight[1].request
          /\ appended[k].type = "response"

----------------------------------------------------------------------------
(* C24: initialization isolation *)

\* The descriptors the loop of initialize() went through in a step that
\* started at position from: up to the next awaited probe, or to the end
LoopRange(from) ==
    {i \in from..Len(modelConfigs) :
        initPc' = "await" => i < MapIndex(modelConfigs, initId')}

\* Each adapter of the range whose initialize() does not await was registered
SyncRegistered(from) ==
    \A i \in LoopRange(from) :
        createModelInstance(modelConfigs[i]) \notin LocalKinds \cup {"null"} =>
            MapHas(models', modelConfigs[i].id)

\* C24: for every subset of configured adapters whose initialize() throws,
\* AIModelManager.initialize() completes without throwing, every adapter whose
\* initialize() did not throw is registered, no adapter whose initialize()
\* threw is registered, and the current-model pointer is set to a registered
\* adapter whenever at least one is registered.
C24_InitIsolation ==
    [][/\ InitializeBegin => SyncRegistered(1)
       /\ \A probeOk \in BOOLEAN :
            InitializeResume(probeOk) =>
                /\ IF createModelInstance(MapGet(modelConfigs, initId)) = "CodeLlama" /\ ~probeOk
                   THEN ~MapHas(models', initId)
                   ELSE MapHas(models', initId)
                /\ SyncRegistered(MapIndex(modelConfigs, initId) + 1)
       /\ (InitializeBegin \/ \E probeOk \in BOOLEAN : InitializeResume(probeOk)) =>
            /\ initPc' \in {"await", "done"}
            /\ (initPc' = "done" /\ Len(models') > 0) => MapHas(models', currentModel')]_vars

\* initialize() has ended: the first adapter threw and is not registered, the
\* later ones are, and the pointer is on a registered adapter
C24_Witness ==
    /\ initPc = "done"
    /\ ~MapHas(models, "codellama-7b-instruct")
    /\ MapHas(models, "codellama-70b-instruct")
    /\ MapHas(models, "claude-code")
    /\ MapHas(models, "gpt-4-turbo")
    /\ currentModel = "codellama-70b-instruct"

----------------------------------------------------------------------------
(* C25: atomic symbol replacement *)

\* A search issued now, or the search at the head of the queue, reads this state
Observable == dbQueue = << >> \/ Head(dbQueue).op = "all"

\* C25: in every state that a search can observe, for each indexed path the
\* stored symbols are exactly the symbols extracted from the stored content of
\* that path and the stored hash is the hash of that same content, also after a
\* failed symbol insert.
C25_AtomicReplacement ==
    Observable =>
        \A row \in file_index :
            /\ row.hash = generateHash(row.content)
            /\ SymbolsOf(row.file_path)
                   = Range(extractSymbols(row.file_path, row.content, row.language))

----------------------------------------------------------------------------
(* C26: the hash check and the replacement as a critical section *)

\* C26: for two concurrent indexFile calls on the same path, no call performs
\* its hash check for the path between another call's hash check and that
\* call's replacement, so the second call always compares against the hash
\* written by the first.
C26_CriticalSection ==
    [][IndexFileResume =>
          ~\E k \in 2..Len(dbQueue) :
               /\ dbQueue[k].op = "replace"
               /\ dbQueue[k].arg.file_path = Head(dbQueue).arg.filePath]_vars

----------------------------------------------------------------------------
(* C27: eventual consistency of the index *)

\* The symbols of the text submitted last for the path
LastSymbols(filePath) ==
    Range(extractSymbols(filePath, submitted[filePath].content, getLanguageFromPath(filePath)))

\* C27: if the editor submits indexFile(path, c1), ..., indexFile(path, cn)
\* without awaiting them and then submits no more for that path, then
\* eventually, and from then on, search reflects exactly the symbols of the
\* last submitted content cn for that path.
C27_EventualConsistency ==
    \A filePath \in Paths :
        <>[](submitted[filePath].id # 0 => SymbolsOf(filePath) = LastSymbols(filePath))

----------------------------------------------------------------------------
(* C28: bounded dispatch *)

AdapterKinds == {"CodeLlama", "DeepSeek", "Qwen", "Llama", "Claude", "Codestral", "OpenAI"}

\* A chat() call is waiting at an adapter of the class
WaitingAt(kind) == \E i \in 1..Len(inflight) : inflight[i].kind = kind

\* C28: every call that was dispatched to any adapter (local or cloud)
\* eventually ends, with the backend's response or with a failure, even when
\* the backend never answers.
C28_BoundedDispatch ==
    \A kind \in AdapterKinds : WaitingAt(kind) ~> ~WaitingAt(kind)

----------------------------------------------------------------------------
(* C29: inline completion at the adapters *)

\* C29: for every adapter variant and every adapter state (not initialized,
\* ready, cleaned up), inlineComplete(request) never throws; on any backend or
\* readiness failure it returns the empty string.
C29_InlineDegradation ==
    \A i \in 1..Len(models), backendOk \in BOOLEAN, response \in Responses :
        LET r == inlineComplete(models[i], backendOk, response)
        IN  /\ ~r.thrown
            /\ (~backendOk \/ ~isAvailable(models[i])) => r.value = ""

----------------------------------------------------------------------------
(* C30: the current-model pointer *)

\* C30: after any sequence of initialize, addModel, removeModel and
\* setCurrentModel calls that leaves at least one adapter registered, the
\* current-model pointer refers to a registered adapter, so getCurrentModel()
\* returns that adapter and not null.
C30_PointerValid ==
    (initPc = "done" /\ Len(models) > 0) => MapHas(models, currentModel)

============================================================================
